---- MODULE Spec2Model ----
(***************************************************************************)
(* HTTPBalanceGo: the load balancer (main.go: backend list, rotation       *)
(* cursor, health check, request dispatch) and the rate limiter            *)
(* (ratelimiter/ratelimiter.go: token buckets and the per-client map).     *)
(*                                                                         *)
(* Spec    the load balancer: construction, concurrent request handlers,   *)
(*         health checks, backends going up and down.                      *)
(* SpecRL  the rate limiter: goroutines calling RateLimiter.Allow while    *)
(*         the clock advances.                                             *)
(* SpecTB  one TokenBucket called directly while the clock advances.       *)
(***************************************************************************)
EXTENDS Integers, Sequences, FiniteSets, TLC

(***************************************************************************)
(* Bounds of the model.                                                    *)
(***************************************************************************)
MaxRequests == 4        \* requests accepted by the server in one run
MaxFlips == 2           \* status changes of backends in one run
MaxCalls == 5           \* Allow calls on the single bucket of SpecTB
MaxTime == 5            \* clock ticks in one run of SpecTB
MaxCap == 3             \* largest capacity of the bucket of SpecTB
MaxRate == 2            \* largest rate of the bucket of SpecTB
RlMaxCalls == 3         \* RateLimiter.Allow calls in one run of SpecRL
RlMaxTime == 2          \* clock ticks in one run of SpecRL
RlMaxCap == 2           \* largest capacity passed to RateLimiter.Allow
RlMaxRate == 2          \* largest rate passed to RateLimiter.Allow
TicksPerSec == 2        \* clock resolution: ticks in one second
IntBits == 16           \* width of the two's complement int of the model

(***************************************************************************)
(* The configuration and the processes.                                    *)
(***************************************************************************)
\* config.Backends: three well-formed addresses and one url.Parse rejects.
Config == <<"A", "%zz", "B", "C">>

\* url.Parse(backend) returned no error.
ParseOK(addr) == addr # "%zz"

\* lb.backends as the loop of NewLoadBalancer leaves it.
ParsedConfig == SelectSeq(Config, ParseOK)

Backends == {ParsedConfig[i] : i \in 1..Len(ParsedConfig)}

\* up: /health answers 200, requests are served.  sick: the server answers,
\* /health with a non-200 status.  down: the connection fails.
Status == {"up", "sick", "down"}

Handlers == {"h1", "h2"}
Procs == {"main"} \cup Handlers

Goroutines == {"g1", "g2"}
Clients == {"c1", "c2"}

Range(s) == {s[i] : i \in 1..Len(s)}

VARIABLES
  \* ---- load balancer ----
  status,          \* environment: the state of every backend server
  backends,        \* lb.backends
  currentBackend,  \* lb.currentBackend
  mutex,           \* lb.mutex: "free" or the process holding it
  running,         \* FALSE once log.Fatal has ended the process
  pc,              \* position of main and of every request handler
  chosen,          \* ServeHTTP: backend
  snap,            \* healthCheck: the slice the range loop iterates
  idx,             \* healthCheck: position of the range loop (1-based)
  healthy,         \* healthCheck: healthyBackends
  codes,           \* healthCheck: the probe results seen so far
  resp,            \* the last response a handler wrote
  nreq,            \* requests accepted so far
  nflip,           \* status changes so far
  served,          \* results of getNextBackend since the last list swap
  genCursor,       \* lb.currentBackend when the last swap unlocked
  poolSrc,         \* the slice and probe results behind the current list
  stillBad,        \* handler's backend has been unhealthy since it failed
  pruned,          \* backends a handler answered 502 for, unhealthy since
  removedBad,      \* backends a swap took out of the list, unhealthy since
  prevBackends,    \* lb.backends before the swap in progress, else <<>>
  \* ---- rate limiter ----
  now,             \* the clock, in ticks
  tbs,             \* the TokenBucket objects allocated so far
  tbMeta,          \* for every bucket: its client and creation time
  capsSeen,        \* for every client: the capacities passed so far
  rlBuckets,       \* rl.buckets: client -> index into tbs, 0 if absent
  gpc,             \* position of every goroutine inside RateLimiter.Allow
  gArgs,           \* RateLimiter.Allow: clientID, capacity, rate
  gBucket,         \* RateLimiter.Allow: bucket (index into tbs)
  calls            \* for every bucket: its Allow calls, time and result

lbVars == <<status, backends, currentBackend, mutex, running, pc, chosen,
            snap, idx, healthy, codes, resp, nreq, nflip, served, genCursor,
            poolSrc, stillBad, pruned, removedBad, prevBackends>>
rlVars == <<now, tbs, tbMeta, capsSeen, rlBuckets, gpc, gArgs, gBucket, calls>>
vars == <<lbVars, rlVars>>

(***************************************************************************)
(* Load balancer                                                           *)
(***************************************************************************)

\* lb.client.Get(backend + "/health"): the error and the status code.
ProbeResult(st) ==
  CASE st = "up"   -> [err |-> FALSE, code |-> 200]
    [] st = "sick" -> [err |-> FALSE, code |-> 500]
    [] st = "down" -> [err |-> TRUE,  code |-> 0]

IsAvailableErrOnly(r) == ~r.err

\* healthCheck: the negation of `err != nil || resp.StatusCode != 200`.
IsAvailable(r) == ~(r.err \/ r.code # 200)

NextCursorStuck(cur, n) == cur

\* getNextBackend: (lb.currentBackend + 1) % len(lb.backends).
NextCursor(cur, n) == (cur + 1) % n

ClampCursorKeep(cur, n) == cur

ClampCursorReset(cur, n) == 0

\* healthCheck: if lb.currentBackend >= len(lb.backends) { = 0 }.
ClampCursor(cur, n) == IF cur >= n THEN 0 ELSE cur

InitLB ==
  /\ backends = ParsedConfig
  /\ currentBackend = 0
  /\ mutex = "free"
  /\ running = TRUE
  /\ pc = [p \in Procs |-> IF p = "main" THEN "hc_range" ELSE "idle"]
  /\ chosen = [p \in Procs |-> "none"]
  /\ snap = [p \in Procs |-> <<>>]
  /\ idx = [p \in Procs |-> 1]
  /\ healthy = [p \in Procs |-> <<>>]
  /\ codes = [p \in Procs |-> <<>>]
  /\ resp = [p \in Procs |-> "none"]
  /\ nreq = 0
  /\ nflip = 0
  /\ served = <<>>
  /\ genCursor = 0
  /\ poolSrc = [set |-> FALSE, snap |-> <<>>, codes |-> <<>>]
  /\ stillBad = [p \in Procs |-> FALSE]
  /\ pruned = {}
  /\ removedBad = {}
  /\ prevBackends = <<>>

\* The capacity of the array behind a slice of n elements that append built
\* one element at a time from nil (NewLoadBalancer line 45, healthCheck
\* line 62): 0, 1, 2, 4.
SliceCap(n) == IF n <= 2 THEN n ELSE 4

\* What a range loop iterates when it took the array pointer of the slice
\* arr and the length n of another slice: the elements of arr, nil in the
\* zeroed rest of its array, and whatever word of memory follows the array
\* (nil, or a pointer to some backend's URL).
TornReads(arr, n) ==
  {s \in [1..n -> Backends \cup {"nil"}] :
     \A i \in 1..n :
        /\ i <= Len(arr) => s[i] = arr[i]
        /\ (Len(arr) < i /\ i <= SliceCap(Len(arr))) => s[i] = "nil"
        /\ Len(arr) = 0 => s[i] = "nil"}

\* The values the unsynchronised read of lb.backends at line 56 can yield.
\* With no swap in progress: the list.  While another goroutine is inside
\* lines 66-74 its write of line 67 races with the read: the read yields
\* the old slice, the new one, or the pointer of one with the length of
\* the other.
RacyReads ==
  IF mutex = "free" THEN {backends}
  ELSE {backends, prevBackends}
         \cup TornReads(backends, Len(prevBackends))
         \cup TornReads(prevBackends, Len(backends))

\* healthCheck, line 56: the range expression lb.backends is evaluated once,
\* without the mutex.
HcRange(p) ==
  /\ running
  /\ pc[p] = "hc_range"
  /\ \E s \in RacyReads : snap' = [snap EXCEPT ![p] = s]
  /\ idx' = [idx EXCEPT ![p] = 1]
  /\ healthy' = [healthy EXCEPT ![p] = <<>>]
  /\ codes' = [codes EXCEPT ![p] = <<>>]
  /\ pc' = [pc EXCEPT ![p] = "hc_probe"]
  /\ UNCHANGED <<status, backends, currentBackend, mutex, running, chosen,
                 resp, nreq, nflip, served, genCursor, poolSrc, stillBad,
                 pruned,
                 removedBad, prevBackends>>

\* healthCheck, lines 56-64: one iteration of the probing loop.  On a nil
\* element backend.String() panics; net/http recovers the panic of the
\* handler goroutine and drops the connection.
HcProbe(p) ==
  /\ running
  /\ pc[p] = "hc_probe"
  /\ idx[p] <= Len(snap[p])
  /\ LET backend == snap[p][idx[p]]
     IN IF backend = "nil"
          THEN /\ pc' = [pc EXCEPT ![p] = "idle"]
               /\ resp' = [resp EXCEPT ![p] = "aborted"]
               /\ stillBad' = [stillBad EXCEPT ![p] = FALSE]
               /\ UNCHANGED <<codes, healthy, idx>>
          ELSE /\ LET r == ProbeResult(status[backend])
                  IN /\ codes' = [codes EXCEPT ![p] = Append(@, r)]
                     /\ healthy' = [healthy EXCEPT ![p] =
                                      IF IsAvailable(r) THEN Append(@, backend)
                                                        ELSE @]
               /\ idx' = [idx EXCEPT ![p] = @ + 1]
               /\ UNCHANGED <<pc, resp, stillBad>>
  /\ UNCHANGED <<status, backends, currentBackend, mutex, running,
                 chosen, snap, nreq, nflip, served, genCursor, poolSrc,
                 pruned, removedBad, prevBackends>>

\* healthCheck, lines 66-70: Lock, replace the list, log.Fatal if it is
\* empty (os.Exit(1): the process ends with the mutex held).
HcSwap(p) ==
  /\ running
  /\ pc[p] = "hc_probe"
  /\ idx[p] > Len(snap[p])
  /\ mutex = "free"
  /\ mutex' = p
  /\ backends' = healthy[p]
  /\ prevBackends' = backends
  /\ running' = (Len(healthy[p]) # 0)
  /\ pc' = [pc EXCEPT ![p] = "hc_clamp"]
  /\ served' = <<>>
  /\ poolSrc' = [set |-> TRUE, snap |-> snap[p], codes |-> codes[p]]
  /\ removedBad' = removedBad \cup
                     {b \in Range(backends) \ Range(healthy[p]) :
                        status[b] # "up"}
  /\ UNCHANGED <<status, currentBackend, chosen, snap, idx, healthy, codes,
                 resp, nreq, nflip, genCursor, stillBad, pruned>>

\* healthCheck, lines 71-75: clamp the cursor, Unlock, return (to
\* NewLoadBalancer, or to the ErrorHandler of ServeHTTP).
HcClamp(p) ==
  /\ running
  /\ pc[p] = "hc_clamp"
  /\ mutex = p
  /\ currentBackend' = ClampCursor(currentBackend, Len(backends))
  /\ genCursor' = currentBackend'
  /\ mutex' = "free"
  /\ prevBackends' = <<>>
  /\ pc' = [pc EXCEPT ![p] = IF p = "main" THEN "serving" ELSE "reply502"]
  /\ UNCHANGED <<status, backends, running, chosen, snap, idx, healthy,
                 codes, resp, nreq, nflip, served, poolSrc, stillBad,
                 pruned,
                 removedBad>>

\* ServeHTTP, lines 91-95, with getNextBackend (lines 77-88) inside the
\* mutex: a request arrives once main serves.
GetNext(p) ==
  /\ running
  /\ p \in Handlers
  /\ pc["main"] = "serving"
  /\ pc[p] = "idle"
  /\ nreq < MaxRequests
  /\ mutex = "free"
  /\ nreq' = nreq + 1
  /\ IF Len(backends) = 0
       THEN /\ resp' = [resp EXCEPT ![p] = "503"]
            /\ UNCHANGED <<chosen, currentBackend, pc, served>>
       ELSE /\ chosen' = [chosen EXCEPT ![p] = backends[currentBackend + 1]]
            /\ currentBackend' = NextCursor(currentBackend, Len(backends))
            /\ served' = Append(served, backends[currentBackend + 1])
            /\ pc' = [pc EXCEPT ![p] = "forward"]
            /\ resp' = [resp EXCEPT ![p] = "none"]
  /\ UNCHANGED <<status, backends, mutex, running, snap, idx, healthy, codes,
                 nflip, genCursor, poolSrc, stillBad, pruned,
                 removedBad, prevBackends>>

\* ServeHTTP, lines 99-106: proxy.ServeHTTP.  A backend that answers has its
\* response copied to the client; a failed connection calls ErrorHandler,
\* which starts with lb.healthCheck().
Forward(p) ==
  /\ running
  /\ pc[p] = "forward"
  /\ IF status[chosen[p]] = "down"
       THEN /\ pc' = [pc EXCEPT ![p] = "hc_range"]
            /\ stillBad' = [stillBad EXCEPT ![p] = TRUE]
            /\ UNCHANGED resp
       ELSE /\ pc' = [pc EXCEPT ![p] = "idle"]
            /\ resp' = [resp EXCEPT ![p] = chosen[p]]
            /\ UNCHANGED stillBad
  /\ UNCHANGED <<status, backends, currentBackend, mutex, running, chosen,
                 snap, idx, healthy, codes, nreq, nflip, served, genCursor,
                 poolSrc, pruned,
                 removedBad, prevBackends>>

\* ServeHTTP, line 103: http.Error(w, "Bad gateway", 502).
Reply502(p) ==
  /\ running
  /\ pc[p] = "reply502"
  /\ resp' = [resp EXCEPT ![p] = "502"]
  /\ pc' = [pc EXCEPT ![p] = "idle"]
  /\ pruned' = IF stillBad[p] THEN pruned \cup {chosen[p]} ELSE pruned
  /\ stillBad' = [stillBad EXCEPT ![p] = FALSE]
  /\ UNCHANGED <<status, backends, currentBackend, mutex, running, chosen,
                 snap, idx, healthy, codes, nreq, nflip, served, genCursor,
                 poolSrc, removedBad, prevBackends>>

\* The environment: a backend server changes state.
EnvChange(b, s) ==
  /\ running
  /\ nflip < MaxFlips
  /\ status[b] # s
  /\ status' = [status EXCEPT ![b] = s]
  /\ nflip' = nflip + 1
  /\ pruned' = IF s = "up" THEN pruned \ {b} ELSE pruned
  /\ removedBad' = IF s = "up" THEN removedBad \ {b} ELSE removedBad
  /\ stillBad' = [p \in Procs |->
                    IF s = "up" /\ chosen[p] = b THEN FALSE ELSE stillBad[p]]
  /\ UNCHANGED <<backends, currentBackend, mutex, running, pc, chosen, snap,
                 idx, healthy, codes, resp, nreq, served, genCursor, poolSrc, prevBackends>>

(***************************************************************************)
(* Properties of the load balancer                                         *)
(***************************************************************************)

\* C1: round-robin.  Since the last list swap left the cursor at 0, the i-th
\* getNextBackend call (i = 0, 1, ...) returned element i mod K of the list
\* of K backends.
RoundRobinFromZero ==
  (mutex = "free" /\ genCursor = 0 /\ Len(backends) > 0) =>
     \A i \in 1..Len(served) :
        served[i] = backends[((i - 1) % Len(backends)) + 1]

\* C1 witness: a list of two backends has been gone through twice.
RoundRobinTwice ==
  /\ mutex = "free" /\ genCursor = 0
  /\ Len(backends) = 2
  /\ Len(served) = 4

\* The elements of s at the positions where the probe answered 200.
RECURSIVE Answered200(_, _)
Answered200(s, c) ==
  IF s = <<>> THEN <<>>
  ELSE LET rest == Answered200(Tail(s), Tail(c))
       IN IF ~Head(c).err /\ Head(c).code = 200
            THEN <<Head(s)>> \o rest ELSE rest

\* C2: health filtering.  The list a health check installed holds exactly
\* the probed backends whose /health probe answered 200, in probing order.
PoolIsAnswered200 ==
  poolSrc.set =>
     /\ Len(poolSrc.codes) = Len(poolSrc.snap)
     /\ backends = Answered200(poolSrc.snap, poolSrc.codes)

\* C2 witness: at startup A answered 200, B answered another status and the
\* connection to C failed; the list is A alone.
PoolOnlyA ==
  /\ poolSrc.set
  /\ poolSrc.snap = ParsedConfig
  /\ poolSrc.codes = <<ProbeResult("up"), ProbeResult("sick"),
                       ProbeResult("down")>>
  /\ backends = <<"A">>
  /\ running

\* C3: recovery.  Every health check that installed a list probed the full
\* configured set of backends.
ProbesConfiguredSet ==
  poolSrc.set => poolSrc.snap = ParsedConfig

\* C4: exhaustion.  A health check that finds no healthy backend leaves the
\* process running (with an empty list).
ExhaustionKeepsRunning ==
  (poolSrc.set /\ Len(backends) = 0) => running

\* C5: failover.  A handler answers 502 only when no backend of the list is
\* healthy; with a healthy backend in the list the request is served by one.
FailoverNo502 ==
  \A p \in Handlers :
     pc[p] = "reply502" => ~(\E b \in Range(backends) : status[b] = "up")

\* C6: reactive pruning.  After a handler answered 502 for backend X, and
\* while X stays unhealthy, no getNextBackend call returns X.
PrunedNotChosen ==
  [][\A p \in Handlers :
       (pc[p] = "idle" /\ pc'[p] = "forward") => chosen'[p] \notin pruned]_vars

\* C12: cursor safety.  While a health check is between replacing the list
\* and clamping the cursor it holds the mutex, and whenever the mutex is
\* free and the list is not empty the cursor is an index of the list, so
\* getNextBackend (which runs with the mutex free) indexes inside the list.
CursorInRange ==
  /\ \A p \in Procs : pc[p] = "hc_clamp" => mutex = p
  /\ (mutex = "free" /\ Len(backends) > 0) =>
        (0 <= currentBackend /\ currentBackend < Len(backends))

\* C12 witness: after requests moved the cursor, a handler's health check
\* installed a shorter list and unlocked with the cursor clamped to 0 while
\* the other handler is inside a request.
CursorClamped ==
  \E p \in Handlers, q \in Handlers :
     /\ pc[p] = "reply502" /\ pc[q] = "forward"
     /\ mutex = "free"
     /\ nreq >= 3
     /\ Len(backends) = 1 /\ Len(poolSrc.snap) = 3
     /\ currentBackend = 0

\* C15: proactive triggering.  A backend that becomes unhealthy and stays
\* so is eventually out of the list, whether or not a request is forwarded
\* to it.
UnhealthyEventuallyRemoved ==
  \A b \in Backends :
     <>[](status[b] # "up") => <>(b \notin Range(backends))

\* C17: cursor on swap.  The list changes only in the step of a health
\* check that takes the mutex; the step that ends the swap keeps a cursor
\* that is an index of the new list and sets any other to 0; the only
\* other step that changes the cursor is a getNextBackend call, and the
\* probing steps of a health check change neither list nor cursor.
CursorOnSwap ==
  [][LET Swaps(p) == pc[p] = "hc_probe" /\ pc'[p] = "hc_clamp"
         Clamps(p) == pc[p] = "hc_clamp" /\ pc'[p] # "hc_clamp"
         Gets(p) == pc[p] = "idle" /\ pc'[p] = "forward"
     IN /\ backends' # backends => \E p \in Procs : Swaps(p)
        /\ \A p \in Procs : Swaps(p) =>
              (backends' = healthy[p] /\ currentBackend' = currentBackend)
        /\ \A p \in Procs : Clamps(p) =>
              currentBackend' = IF currentBackend < Len(backends)
                                  THEN currentBackend ELSE 0
        /\ currentBackend' # currentBackend =>
              \E p \in Procs : Clamps(p) \/ Gets(p)]_vars

\* C17 witness: a health check replaced a list of three by a list of two
\* while the cursor was 1 and left the cursor at 1.
CursorKeptOnSwap ==
  /\ mutex = "free"
  /\ poolSrc.set /\ Len(poolSrc.snap) = 3 /\ Len(backends) = 2
  /\ served = <<>>
  /\ genCursor = 1 /\ currentBackend = 1
  /\ nreq >= 1

\* C18: no stale overwrite.  Once a health check has taken an unhealthy
\* backend out of the list, and while that backend stays unhealthy, no step
\* (no swap of an overlapping health check) puts it back.
StaleSwapNeverReadds ==
  [][\A b \in removedBad : b \notin Range(backends')]_vars

\* s is t with some elements left out: same order, nothing added or
\* repeated.
RECURSIVE IsSubsequence(_, _)
IsSubsequence(s, t) ==
  IF s = <<>> THEN TRUE
  ELSE IF t = <<>> THEN FALSE
  ELSE IF Head(s) = Head(t) THEN IsSubsequence(Tail(s), Tail(t))
  ELSE IsSubsequence(s, Tail(t))

\* C20: pool membership.  The list is a subsequence of the configured
\* addresses that parsed, and a backend a handler got from getNextBackend
\* is one of them.
PoolWithinConfig ==
  /\ IsSubsequence(backends, ParsedConfig)
  /\ \A p \in Handlers : pc[p] = "forward" => chosen[p] \in Range(ParsedConfig)

(***************************************************************************)
(* Rate limiter                                                            *)
(***************************************************************************)

\* Go's int arithmetic: the result reduced to IntBits bits, two's complement.
Wrap(x) == ((x + 2^(IntBits - 1)) % 2^IntBits) - 2^(IntBits - 1)

\* The largest int.
MaxInt == 2^(IntBits - 1) - 1

\* The capacities and rates of the bucket of SpecTB: small ones, and large
\* ones for which the products and sums of refill leave the range of int.
TbCapacities == (1..MaxCap) \cup {MaxInt}
TbRates == (1..MaxRate) \cup {2^(IntBits - 2)}

NewTokenBucketEmpty(capacity, rate, t) ==
  [capacity |-> capacity, rate |-> rate, tokens |-> 0, lastRefill |-> t]

\* NewTokenBucket(capacity, rate) called when the clock shows t.
NewTokenBucket(capacity, rate, t) ==
  [capacity |-> capacity, rate |-> rate, tokens |-> capacity, lastRefill |-> t]

\* refill, lines 27-28: int(elapsed.Seconds()) * tb.rate, for a clock at t.
TokensToAdd(tb, t) == Wrap(((t - tb.lastRefill) \div TicksPerSec) * tb.rate)

RefillAlwaysStamps(tb, t) ==
  LET tokensToAdd == TokensToAdd(tb, t)
  IN [tb EXCEPT !.tokens = IF tokensToAdd <= 0 THEN tb.tokens
                           ELSE IF Wrap(tb.tokens + tokensToAdd) > tb.capacity
                                  THEN tb.capacity
                                  ELSE Wrap(tb.tokens + tokensToAdd),
                !.lastRefill = t]

\* TokenBucket.refill at clock t: the bucket it leaves.
Refill(tb, t) ==
  LET tokensToAdd == TokensToAdd(tb, t)
  IN IF tokensToAdd > 0
       THEN [tb EXCEPT !.tokens = IF Wrap(tb.tokens + tokensToAdd) > tb.capacity
                                     THEN tb.capacity
                                     ELSE Wrap(tb.tokens + tokensToAdd),
                       !.lastRefill = t]
       ELSE tb

TokenBucketAllowNoTake(tb, t) ==
  LET r == Refill(tb, t)
  IN [tb |-> r, ok |-> r.tokens > 0]

\* TokenBucket.Allow at clock t: the bucket it leaves and the result.
TokenBucketAllow(tb, t) ==
  LET r == Refill(tb, t)
  IN IF r.tokens > 0
       THEN [tb |-> [r EXCEPT !.tokens = Wrap(r.tokens - 1)], ok |-> TRUE]
       ELSE [tb |-> r, ok |-> FALSE]

\* RateLimiter.Allow calls entered so far.
RECURSIVE SumLen(_)
SumLen(ss) == IF ss = <<>> THEN 0 ELSE Len(Head(ss)) + SumLen(Tail(ss))

NoArgs == [clientID |-> "c1", capacity |-> 1, rate |-> 1]

Started == SumLen(calls) + Cardinality({g \in Goroutines : gpc[g] # "idle"})

InitRL ==
  /\ now = 0
  /\ tbs = <<>>
  /\ tbMeta = <<>>
  /\ rlBuckets = [c \in Clients |-> 0]
  /\ gpc = [g \in Goroutines |-> "idle"]
  /\ capsSeen = [c \in Clients |-> {}]
  /\ gArgs = [g \in Goroutines |-> NoArgs]
  /\ gBucket = [g \in Goroutines |-> 0]
  /\ calls = <<>>

RlLookupRecreate(g, clientID, capacity, rate) ==
  /\ gpc[g] = "idle"
  /\ Started < RlMaxCalls
  /\ gArgs' = [gArgs EXCEPT ![g] = [clientID |-> clientID,
                                    capacity |-> capacity, rate |-> rate]]
  /\ gBucket' = [gBucket EXCEPT ![g] = rlBuckets[clientID]]
  /\ gpc' = [gpc EXCEPT ![g] =
               IF \/ rlBuckets[clientID] = 0
                  \/ tbs[rlBuckets[clientID]].capacity # capacity
                  \/ tbs[rlBuckets[clientID]].rate # rate
                 THEN "create" ELSE "allow"]
  /\ capsSeen' = [capsSeen EXCEPT ![clientID] = @ \cup {capacity}]
  /\ UNCHANGED <<now, tbs, tbMeta, rlBuckets, calls>>

\* RateLimiter.Allow, lines 65-67: the lookup under the read lock.
RlLookup(g, clientID, capacity, rate) ==
  /\ gpc[g] = "idle"
  /\ Started < RlMaxCalls
  /\ gArgs' = [gArgs EXCEPT ![g] = [clientID |-> clientID,
                                    capacity |-> capacity, rate |-> rate]]
  /\ gBucket' = [gBucket EXCEPT ![g] = rlBuckets[clientID]]
  /\ gpc' = [gpc EXCEPT ![g] =
               IF rlBuckets[clientID] = 0 THEN "create" ELSE "allow"]
  /\ capsSeen' = [capsSeen EXCEPT ![clientID] = @ \cup {capacity}]
  /\ UNCHANGED <<now, tbs, tbMeta, rlBuckets, calls>>

\* RateLimiter.Allow, lines 69-74: no bucket was found; under the write
\* lock a new one is made and stored, whatever the map holds by now.
RlCreate(g) ==
  /\ gpc[g] = "create"
  /\ tbs' = Append(tbs, NewTokenBucket(gArgs[g].capacity, gArgs[g].rate, now))
  /\ tbMeta' = Append(tbMeta, [clientID |-> gArgs[g].clientID, created |-> now])
  /\ rlBuckets' = [rlBuckets EXCEPT ![gArgs[g].clientID] = Len(tbs) + 1]
  /\ gBucket' = [gBucket EXCEPT ![g] = Len(tbs) + 1]
  /\ calls' = Append(calls, <<>>)
  /\ gpc' = [gpc EXCEPT ![g] = "allow"]
  /\ UNCHANGED <<now, gArgs, capsSeen>>

RlBucketAllowShared(g) ==
  /\ gpc[g] = "allow"
  /\ LET r == TokenBucketAllow(tbs[1], now)
     IN /\ tbs' = [tbs EXCEPT ![1] = r.tb]
        /\ calls' = [calls EXCEPT ![1] = Append(@, [t |-> now, ok |-> r.ok])]
  /\ gpc' = [gpc EXCEPT ![g] = "idle"]
  /\ gArgs' = [gArgs EXCEPT ![g] = NoArgs]
  /\ gBucket' = [gBucket EXCEPT ![g] = 0]
  /\ UNCHANGED <<now, tbMeta, capsSeen, rlBuckets>>

\* RateLimiter.Allow, line 76: bucket.Allow(), inside the bucket's mutex.
RlBucketAllow(g) ==
  /\ gpc[g] = "allow"
  /\ LET r == TokenBucketAllow(tbs[gBucket[g]], now)
     IN /\ tbs' = [tbs EXCEPT ![gBucket[g]] = r.tb]
        /\ calls' = [calls EXCEPT ![gBucket[g]] =
                        Append(@, [t |-> now, ok |-> r.ok])]
  /\ gpc' = [gpc EXCEPT ![g] = "idle"]
  /\ gArgs' = [gArgs EXCEPT ![g] = NoArgs]
  /\ gBucket' = [gBucket EXCEPT ![g] = 0]
  /\ UNCHANGED <<now, tbMeta, capsSeen, rlBuckets>>

\* A direct call of TokenBucket.Allow on the bucket of SpecTB.
TbAllow ==
  /\ Len(calls[1]) < MaxCalls
  /\ LET r == TokenBucketAllow(tbs[1], now)
     IN /\ tbs' = [tbs EXCEPT ![1] = r.tb]
        /\ calls' = [calls EXCEPT ![1] = Append(@, [t |-> now, ok |-> r.ok])]
  /\ UNCHANGED <<now, tbMeta, capsSeen, rlBuckets, gpc, gArgs, gBucket>>

\* The clock advances by one tick.
Tick(limit) ==
  /\ now < limit
  /\ now' = now + 1
  /\ UNCHANGED <<tbs, tbMeta, capsSeen, rlBuckets, gpc, gArgs, gBucket, calls>>

(***************************************************************************)
(* Properties of the rate limiter                                          *)
(***************************************************************************)

\* The buckets made for client c, and the calls admitted for c.
BucketsOf(c) == {b \in 1..Len(tbs) : tbMeta[b].clientID = c}
AdmittedOn(b) == Cardinality({i \in 1..Len(calls[b]) : calls[b][i].ok})
RECURSIVE SumOver(_, _, _)
SumOver(f(_), S, acc) ==
  IF S = {} THEN acc
  ELSE LET b == CHOOSE x \in S : TRUE IN SumOver(f, S \ {b}, acc + f(b))
CallsFor(c) == LET n(b) == Len(calls[b]) IN SumOver(n, BucketsOf(c), 0)
AdmittedFor(c) == SumOver(AdmittedOn, BucketsOf(c), 0)

\* C7: concurrent admission.  When more than C calls for one client, all
\* with capacity C, have returned within the first second, exactly C of
\* them were admitted.
ExactlyCapacityAdmitted ==
  \A c \in Clients, C \in 1..RlMaxCap :
     ( /\ \A g \in Goroutines : gpc[g] = "idle"
       /\ capsSeen[c] = {C}
       /\ CallsFor(c) > C
       /\ now < TicksPerSec )
     => AdmittedFor(c) = C

\* C8: one bucket per client.  No two TokenBucket objects are ever made for
\* the same client identifier.
OneBucketPerClient ==
  \A c \in Clients : Cardinality(BucketsOf(c)) <= 1

\* C9: saturation.  Within the first second of a bucket of capacity C, its
\* first C Allow calls return true and every later one false.
SaturatesAtCapacity ==
  \A b \in 1..Len(tbs) :
     (now - tbMeta[b].created < TicksPerSec) =>
        \A i \in 1..Len(calls[b]) : calls[b][i].ok = (i <= tbs[b].capacity)

\* C9 witness: a bucket of capacity 3 admitted three calls and denied the
\* fourth, all within its first second.
SaturationSeen ==
  /\ Len(tbs) = 1
  /\ tbs[1].capacity = 3
  /\ now - tbMeta[1].created < TicksPerSec
  /\ Len(calls[1]) = 4
  /\ ~calls[1][4].ok

\* C10: refill.  After a denied Allow call, the first call that is not
\* denied-in-between and comes at least one second later returns true.
RefillAfterOneSecond ==
  \A b \in 1..Len(tbs) :
     \A i \in 1..Len(calls[b]) : \A j \in (i + 1)..Len(calls[b]) :
        ( /\ ~calls[b][i].ok
          /\ calls[b][j].t >= calls[b][i].t + TicksPerSec
          /\ \A k \in (i + 1)..(j - 1) : ~calls[b][k].ok )
        => calls[b][j].ok

\* C10 witness: a call was denied, another was denied less than a second
\* later, and a call one second after the first denial was admitted.
RefillSeen ==
  \E i \in 1..Len(calls[1]) :
     /\ i + 2 <= Len(calls[1])
     /\ ~calls[1][i].ok
     /\ ~calls[1][i + 1].ok
     /\ calls[1][i + 2].ok
     /\ calls[1][i + 2].t >= calls[1][i].t + TicksPerSec

\* C11: token count bounds.  The token count of every bucket is at least 0
\* and at most its capacity, for every capacity, rate and elapsed time.
TokensWithinCapacity ==
  \A b \in 1..Len(tbs) : 0 <= tbs[b].tokens /\ tbs[b].tokens <= tbs[b].capacity

\* C13: per-client isolation.  A step of a RateLimiter.Allow call for one
\* client changes neither the map entry nor any bucket (state and results)
\* of another client.
OtherClientsUntouched ==
  [][\A g \in Goroutines :
       gpc'[g] # gpc[g] =>
         LET c1 == IF gpc[g] = "idle" THEN gArgs'[g].clientID
                                     ELSE gArgs[g].clientID
         IN \A c2 \in Clients \ {c1} :
               /\ rlBuckets'[c2] = rlBuckets[c2]
               /\ \A b \in BucketsOf(c2) :
                     /\ b <= Len(tbs')
                     /\ tbs'[b] = tbs[b]
                     /\ tbMeta'[b] = tbMeta[b]
                     /\ calls'[b] = calls[b]]_vars

\* C13 witness: the bucket of c1 is exhausted (its last call was denied)
\* and a call for c2 was admitted from a full bucket of its own.
OneExhaustedOtherAdmitted ==
  \E b1 \in BucketsOf("c1"), b2 \in BucketsOf("c2") :
     /\ Len(calls[b1]) = 2
     /\ ~calls[b1][2].ok
     /\ Len(calls[b2]) = 1
     /\ calls[b2][1].ok
     /\ tbs[b2].tokens = tbs[b2].capacity - 1

\* C14: limits fixed at first use.  No step changes the capacity or rate of
\* a bucket, and a call entered while the map holds a bucket for its client
\* goes on to that bucket whatever capacity and rate it was given: it makes
\* no bucket and leaves the map alone.
LimitsFixedAtFirstUse ==
  [][/\ \A b \in 1..Len(tbs) :
          /\ b <= Len(tbs')
          /\ tbs'[b].capacity = tbs[b].capacity
          /\ tbs'[b].rate = tbs[b].rate
     /\ \A g \in Goroutines :
          (gpc[g] = "idle" /\ gpc'[g] # "idle"
             /\ rlBuckets[gArgs'[g].clientID] # 0)
          => /\ gpc'[g] = "allow"
             /\ gBucket'[g] = rlBuckets[gArgs'[g].clientID]
             /\ rlBuckets' = rlBuckets
             /\ tbs' = tbs]_vars

\* C14 witness: calls with capacities 1 and 2 were made for c1, all have
\* returned, and c1 has the one bucket of the first call.
LaterArgsIgnored ==
  /\ \A g \in Goroutines : gpc[g] = "idle"
  /\ capsSeen["c1"] = {1, 2}
  /\ Cardinality(BucketsOf("c1")) = 1
  /\ \E b \in BucketsOf("c1") : Len(calls[b]) >= 2

\* C16: refill step.  An Allow call at clock now on a bucket with last
\* refill L, count t, capacity C and rate r first sets the count to
\* min(t + floor((now - L) in seconds) * r, C), then takes one token if the
\* count is positive; the last-refill time becomes now exactly when
\* floor((now - L) in seconds) * r > 0.
RefillIsCappedSum ==
  [][\A b \in 1..Len(tbs) :
       (b <= Len(calls') /\ calls'[b] # calls[b]) =>
          LET tb == tbs[b]
              due == ((now - tb.lastRefill) \div TicksPerSec) * tb.rate
              count == IF tb.tokens + due < tb.capacity
                         THEN tb.tokens + due ELSE tb.capacity
              ok == calls'[b][Len(calls'[b])].ok
          IN /\ ok = (count > 0)
             /\ tbs'[b].tokens = IF ok THEN count - 1 ELSE count
             /\ tbs'[b].lastRefill = IF due > 0 THEN now ELSE tb.lastRefill]_vars

\* The calls i..j of bucket b that were admitted, and the whole seconds
\* needed to cover d ticks.
AdmittedBetween(b, i, j) == Cardinality({k \in i..j : calls[b][k].ok})
CeilSeconds(d) == (d + TicksPerSec - 1) \div TicksPerSec

\* C19: rate bound.  Of the Allow calls on a bucket of capacity C and rate r
\* that fall in a time window of D seconds, at most C + r * ceil(D) are
\* admitted.
AdmittedWithinRate ==
  \A b \in 1..Len(tbs) :
     \A i \in 1..Len(calls[b]) : \A j \in i..Len(calls[b]) :
        AdmittedBetween(b, i, j) <=
           tbs[b].capacity
             + tbs[b].rate * CeilSeconds(calls[b][j].t - calls[b][i].t)

\* C19 witness: a window longer than zero in which a refill happened and
\* the admitted calls reach the bound.
RateBoundReached ==
  \E i \in 1..Len(calls[1]) : \E j \in i..Len(calls[1]) :
     /\ calls[1][j].t >= calls[1][i].t + TicksPerSec
     /\ AdmittedBetween(1, i, j) =
           tbs[1].capacity
             + tbs[1].rate * CeilSeconds(calls[1][j].t - calls[1][i].t)

(***************************************************************************)
(* Specifications                                                          *)
(***************************************************************************)

Init ==
  /\ status \in [Backends -> Status]
  /\ InitLB
  /\ InitRL

Next ==
  \/ \E p \in Procs : HcRange(p) /\ UNCHANGED rlVars
  \/ \E p \in Procs : HcProbe(p) /\ UNCHANGED rlVars
  \/ \E p \in Procs : HcSwap(p) /\ UNCHANGED rlVars
  \/ \E p \in Procs : HcClamp(p) /\ UNCHANGED rlVars
  \/ \E p \in Handlers : GetNext(p) /\ UNCHANGED rlVars
  \/ \E p \in Handlers : Forward(p) /\ UNCHANGED rlVars
  \/ \E p \in Handlers : Reply502(p) /\ UNCHANGED rlVars
  \/ \E b \in Backends, s \in Status : EnvChange(b, s) /\ UNCHANGED rlVars

Spec == Init /\ [][Next]_vars

\* The steps of the program itself: goroutines that can run do run.  When
\* requests arrive and when backends change state is up to the environment.
ProgramStep ==
  \/ \E p \in Procs : HcRange(p) \/ HcProbe(p) \/ HcSwap(p) \/ HcClamp(p)
  \/ \E p \in Handlers : Forward(p) \/ Reply502(p)

FairSpec == Spec /\ WF_vars(ProgramStep /\ UNCHANGED rlVars)

\* The rate limiter alone: the load balancer stays as constructed.
InitRLOnly ==
  /\ status = [b \in Backends |-> "up"]
  /\ InitLB
  /\ InitRL

NextRL ==
  \/ \E g \in Goroutines, c \in Clients, cap \in 1..RlMaxCap, r \in 1..RlMaxRate :
        RlLookup(g, c, cap, r) /\ UNCHANGED lbVars
  \/ \E g \in Goroutines : RlCreate(g) /\ UNCHANGED lbVars
  \/ \E g \in Goroutines : RlBucketAllow(g) /\ UNCHANGED lbVars
  \/ Tick(RlMaxTime) /\ UNCHANGED lbVars

SpecRL == InitRLOnly /\ [][NextRL]_vars

\* One token bucket alone, as NewTokenBucket(capacity, rate) made it at
\* clock 0, called directly.
InitTB ==
  /\ status = [b \in Backends |-> "up"]
  /\ InitLB
  /\ now = 0
  /\ \E capacity \in TbCapacities, rate \in TbRates :
        tbs = <<NewTokenBucket(capacity, rate, 0)>>
  /\ tbMeta = <<[clientID |-> "c1", created |-> 0]>>
  /\ calls = << <<>> >>
  /\ capsSeen = [c \in Clients |-> {}]
  /\ rlBuckets = [c \in Clients |-> 0]
  /\ gpc = [g \in Goroutines |-> "idle"]
  /\ gArgs = [g \in Goroutines |-> NoArgs]
  /\ gBucket = [g \in Goroutines |-> 0]

NextTB ==
  \/ TbAllow /\ UNCHANGED lbVars
  \/ Tick(MaxTime) /\ UNCHANGED lbVars

SpecTB == InitTB /\ [][NextTB]_vars

====
